---- MODULE Spec2Model ----
(***************************************************************************)
(* A model of the Data Viz Satellite API (src/api/main.py): the dataset    *)
(* cache (the lru_cache wrapper around get_cached_dataset and the          *)
(* _data_cache dictionary behind it), the synthetic dataset generator, and *)
(* the volcano query pipeline (search filter, categorize_points,           *)
(* statistics, apply_spatial_filter, get_lod_max_points,                   *)
(* intelligent_sampling).                                                  *)
(*                                                                         *)
(* Units.  logFC and the x/y ranges are integers in hundredths; padj and   *)
(* p_value_threshold are integers in millionths (padj is rounded to six    *)
(* decimals by the generator) and restricted to powers of ten, so that     *)
(* -log10(padj) is exact; zoom_level is an integer in sixteenths and       *)
(* restricted to squares k*k (zoom = (k/4)^2), so that zoom ** 1.5 =       *)
(* k^3/64 is exact.  All arithmetic is exact rational arithmetic on these  *)
(* grids.                                                                  *)
(*                                                                         *)
(* Scheduling.  The endpoints of main.py are `async def` handlers that     *)
(* never suspend (the only await, in the GET form of the volcano endpoint, *)
(* is on the POST handler, which has none), served by one uvicorn event    *)
(* loop (src/scripts/dev.py starts a single process): a handler runs to    *)
(* completion before the next one starts, so each handler is one action.   *)
(***************************************************************************)
EXTENDS Integers, Sequences, FiniteSets, TLC

(***************************************************************************)
(* Bounds of the model.                                                    *)
(***************************************************************************)
\* Dataset sizes requested from the cache are 1..NumSizes.
NumSizes == 11
\* The modulus of the stand-in for numpy's global generator.
RngMod == 16
\* The generator body runs at most this many times per size in a behaviour.
MaxGenerations == 2
\* clear_cache is called at most this many times in a behaviour.
MaxClears == 1
\* Volcano requests queued at the event loop at one time.
MaxPending == 2
\* Sizes that single volcano requests ask for are 1..NumHotSizes.
NumHotSizes == 2
\* Rows of the DataFrames given to categorize_points directly.
MaxCategorizeRows == 2
\* Rows of the DataFrames given to apply_spatial_filter directly.
MaxSpatialRows == 2
\* Rows of the DataFrames given to intelligent_sampling directly.
MaxSamplingRows == 4
\* Budgets given to intelligent_sampling directly are 0..MaxBudget.
MaxBudget == 5
\* Zoom levels given to get_lod_max_points are (k/4)^2, k in 1..MaxZoomRoot.
MaxZoomRoot == 40
\* The dataset size of the volcano requests with arbitrary filters.
QuerySize == 6

(***************************************************************************)
(* Program constants.                                                      *)
(***************************************************************************)
\* @lru_cache(maxsize=10) on get_cached_dataset
LruMaxSize == 10
\* @lru_cache(maxsize=20) on get_cached_pca_dataset
PcaLruMaxSize == 20
\* np.random.seed(42)
Seed == 42
\* max_adaptive_points = 200000
MaxAdaptivePoints == 200000
\* min(zoom_level ** 1.5, 100)
MaxZoomMultiplier == 100
\* def get_lod_max_points(zoom_level, base_points: int = 2000), "2K at zoom 1x"
DefaultBasePoints == 2000

\* The dataset sizes of the model: those the generator can serve, an empty
\* dataset, and a negative size (FilterParams.dataset_size is any int).
Sizes == -1..NumSizes
HotSizes == 1..NumHotSizes

Min(a, b) == IF a <= b THEN a ELSE b
Max(a, b) == IF a >= b THEN a ELSE b

\* int(num / den) for den > 0: Python's int() truncates towards zero.
IntTrunc(num, den) ==
  IF num >= 0 THEN num \div den ELSE -((-num) \div den)

(***************************************************************************)
(* numpy's global random generator, reduced to a linear congruential       *)
(* generator of period RngMod.  A draw returns the state and advances it;  *)
(* a vectorised call of n draws uses n successive states.                  *)
(***************************************************************************)
Lcg(s) == (5 * s + 3) % RngMod

\* The n-fold iterate of Lcg is s |-> (p[1] * s + p[2]) % RngMod, with p found
\* by repeated squaring.
RECURSIVE LcgIterate(_)
LcgIterate(n) ==
  IF n <= 0 THEN <<1, 0>>
  ELSE IF n % 2 = 0
  THEN LET h == LcgIterate(n \div 2)
       IN  <<(h[1] * h[1]) % RngMod, (h[1] * h[2] + h[2]) % RngMod>>
  ELSE LET p == LcgIterate(n - 1)
       IN  <<(5 * p[1]) % RngMod, (5 * p[2] + 3) % RngMod>>

\* The generator state after n draws from state s.
Advance(s, n) == LET p == LcgIterate(n) IN (p[1] * s + p[2]) % RngMod

\* np.random.seed(seed): the state no longer depends on what was drawn before.
NpRandomSeedSkipped(state, seed) == state
NpRandomSeed(state, seed) == seed % RngMod

\* np.random.normal(mu, sigma): mu + sigma * z, z in -2..2.
Normal(mu, sigma, u) == mu + sigma * ((u % 5) - 2)

\* np.random.uniform(lo, hi), on the powers of ten of [lo, hi] (millionths).
Uniform(lo, hi, u) ==
  LET grid == SelectSeq(<<100, 1000, 10000, 100000, 1000000>>,
                        LAMBDA p : lo <= p /\ p <= hi)
  IN  grid[((u \div 2) % Len(grid)) + 1]

\* np.clip(p_values, 0.0001, 1.0)
Clip(p) == Max(100, Min(p, 1000000))

Swap(a, i, j) == [a EXCEPT ![i] = a[j], ![j] = a[i]]

\* np.random.shuffle(indices): Fisher-Yates from the last position down.
RECURSIVE Shuffle(_, _, _)
Shuffle(a, i, s) ==
  IF i <= 1 THEN a
  ELSE Shuffle(Swap(a, i, (s % i) + 1), i - 1, Lcg(s))

(***************************************************************************)
(* The dataset generator: the body of get_cached_dataset after the         *)
(* _data_cache test.                                                       *)
(***************************************************************************)
\* The first three characters of metabolite_names[i], i = 1..30; rows past
\* the list are named "Metabolite_<i>".
metabolite_names ==
  << <<"1", ",", "3">>, <<"3", ",", "4">>, <<"(", "2", "-">>,
     <<"R", "e", "s">>, <<"M", "e", "t">>, <<"t", "r", "a">>,
     <<"P", "r", "o">>, <<"G", "l", "u">>, <<"N", "P", "-">>,
     <<"T", "r", "p">>, <<"B", "i", "o">>, <<"P", "y", "r">>,
     <<"S", "u", "l">>, <<"P", "r", "o">>, <<"T", "a", "r">>,
     <<"L", "-", "C">>, <<"T", "a", "u">>, <<"C", "r", "e">>,
     <<"A", "d", "e">>, <<"G", "u", "a">>, <<"C", "y", "t">>,
     <<"U", "r", "i">>, <<"T", "h", "y">>, <<"I", "n", "o">>,
     <<"X", "a", "n">>, <<"H", "y", "p">>, <<"X", "a", "n">>,
     <<"U", "r", "i">>, <<"A", "l", "l">>, <<"C", "r", "e">> >>

GeneName(i) ==
  IF i <= Len(metabolite_names) THEN metabolite_names[i] ELSE <<"M", "e", "t">>

\* n_non_sig = int(size * 0.85); n_up_reg = int(size * 0.075)
\* n_down_reg = size - n_non_sig - n_up_reg
NNonSig(size) == IntTrunc(size * 85, 100)
NUpReg(size) == IntTrunc(size * 75, 1000)
NDownReg(size) == size - NNonSig(size) - NUpReg(size)

\* np.random.normal(mu, sigma, n) raises ValueError for a negative n: the body
\* raises at the first of its three draws of log fold changes whose count is
\* negative, having drawn the groups before it.
GeneratorRaises(size) ==
  NNonSig(size) < 0 \/ NUpReg(size) < 0 \/ NDownReg(size) < 0
DrawsBeforeRaise(size) ==
  IF NNonSig(size) < 0 THEN 0
  ELSE IF NUpReg(size) < 0 THEN NNonSig(size)
  ELSE NNonSig(size) + NUpReg(size)

\* The dataset of `size` rows drawn from generator state s0 (the state right
\* after np.random.seed), in the order of the draws in the source: log_fc for
\* the three groups, p_values for the three groups, the noise, the shuffle, the
\* two classifications.
GenerateFrom(size, s0) ==
  LET nNon == NNonSig(size)
      nUp == NUpReg(size)
      u(k) == Advance(s0, k)
      fc0(j) == IF j <= nNon THEN Normal(0, 60, u(j - 1))
                ELSE IF j <= nNon + nUp THEN Normal(150, 80, u(j - 1))
                ELSE Normal(-150, 80, u(j - 1))
      pv(j) == IF j <= nNon THEN Uniform(100000, 1000000, u(size + j - 1))
               ELSE Uniform(100, 50000, u(size + j - 1))
      fc(j) == fc0(j) + Normal(0, 10, u(2 * size + j - 1))
      indices == Shuffle([j \in 1..size |-> j], size, u(3 * size))
      afterShuffle == 3 * size + Max(size - 1, 0)
  IN  [j \in 1..size |->
         [gene |-> GeneName(j),
          logFC |-> fc(indices[j]),
          padj |-> Clip(pv(indices[j])),
          classyfireSuperclass |-> u(afterShuffle + j - 1) % 5,
          classyfireClass |-> u(afterShuffle + size + j - 1) % 10]]

\* The generator state the body leaves behind.
RngAfterGenerate(size, s0) == Advance(s0, 5 * size + Max(size - 1, 0))

\* GenerateFrom, tabulated once over the sizes and generator states of the model.
Datasets ==
  [size \in 0..NumSizes |-> [s0 \in 0..(RngMod - 1) |-> GenerateFrom(size, s0)]]


(***************************************************************************)
(* Sequences of rows (a polars DataFrame is a sequence of rows).           *)
(***************************************************************************)
\* df.filter(pred): the rows satisfying pred, in order.
Filter(df, Pred(_)) == SelectSeq(df, Pred)

\* df.head(n); a negative n keeps all rows but the last -n.
DfHead(df, n) ==
  IF n >= 0 THEN SubSeq(df, 1, Min(n, Len(df)))
  ELSE SubSeq(df, 1, Max(Len(df) + n, 0))

\* The injections of 1..m into 1..n: the ways to pick m of n rows, in any order.
Injections(m, n) ==
  {f \in [1..m -> 1..n] : \A i, j \in 1..m : i # j => f[i] # f[j]}

\* df.sort("logFC") (descending or not): polars' sort does not keep the order
\* of equal keys, so every arrangement sorted by the key is a possible result.
SortOutcomes(df, descending) ==
  {[i \in 1..Len(df) |-> df[f[i]]] :
     f \in {g \in Injections(Len(df), Len(df)) :
              \A i \in 1..(Len(df) - 1) :
                 IF descending THEN df[g[i]].logFC >= df[g[i + 1]].logFC
                 ELSE df[g[i]].logFC <= df[g[i + 1]].logFC}}

\* df.sample(m): m distinct rows; the order of the result is unspecified.
\* The mutant samples with replacement.
SampleOutcomesWithReplacement(df, m) ==
  {[i \in 1..m |-> df[f[i]]] : f \in [1..m -> 1..Len(df)]}
SampleOutcomes(df, m) ==
  {[i \in 1..m |-> df[f[i]]] : f \in Injections(m, Len(df))}

(***************************************************************************)
(* The search filter of get_volcano_data.                                  *)
(***************************************************************************)
UpperCase ==
  <<"A", "B", "C", "D", "E", "F", "G", "H", "I", "J", "K", "L", "M",
    "N", "O", "P", "Q", "R", "S", "T", "U", "V", "W", "X", "Y", "Z">>
LowerCase ==
  <<"a", "b", "c", "d", "e", "f", "g", "h", "i", "j", "k", "l", "m",
    "n", "o", "p", "q", "r", "s", "t", "u", "v", "w", "x", "y", "z">>

\* str.to_lowercase() / str.lower()
ToLower(s) ==
  [i \in 1..Len(s) |->
     IF \E k \in 1..Len(UpperCase) : UpperCase[k] = s[i]
     THEN LowerCase[CHOOSE k \in 1..Len(UpperCase) : UpperCase[k] = s[i]]
     ELSE s[i]]

\* str.contains(term), for a term without regular-expression metacharacters.
Contains(s, term) ==
  \E i \in 0..(Len(s) - Len(term)) : SubSeq(s, i + 1, i + Len(term)) = term

SearchFilter(df, search_term) ==
  IF search_term = <<>> THEN df
  ELSE LET Match(row) == Contains(ToLower(row.gene), ToLower(search_term))
       IN  Filter(df, Match)

(***************************************************************************)
(* categorize_points                                                       *)
(***************************************************************************)
\* The mutant tests the up rule first.
CategoryUpFirst(row, p_threshold, log_fc_min, log_fc_max) ==
  IF row.padj <= p_threshold /\ row.logFC > log_fc_max THEN "up"
  ELSE IF row.padj <= p_threshold /\ row.logFC < log_fc_min THEN "down"
  ELSE "non_significant"
Category(row, p_threshold, log_fc_min, log_fc_max) ==
  IF row.padj <= p_threshold /\ row.logFC < log_fc_min THEN "down"
  ELSE IF row.padj <= p_threshold /\ row.logFC > log_fc_max THEN "up"
  ELSE "non_significant"

categorize_points(df, p_threshold, log_fc_min, log_fc_max) ==
  [i \in 1..Len(df) |->
     [gene |-> df[i].gene,
      logFC |-> df[i].logFC,
      padj |-> df[i].padj,
      classyfireSuperclass |-> df[i].classyfireSuperclass,
      classyfireClass |-> df[i].classyfireClass,
      category |-> Category(df[i], p_threshold, log_fc_min, log_fc_max)]]

\* A DataFrame object is [size, n]: the n-th dataset generated for `size`.  The
\* heap keeps, for each object, the generator state its rows were drawn from
\* and the thresholds of a category column written into it (<<>> when it has no
\* such column); the rows of the object are a function of these.
Rows(hp, obj) ==
  LET generated_rows == Datasets[obj.size][hp[obj].drawn_from]
      category == hp[obj].category
  IN  IF category = <<>> THEN generated_rows
      ELSE categorize_points(generated_rows, category[1], category[2],
                             category[3])

\* df.with_columns(...) returns a new DataFrame: the object it is called on,
\* the cached one when there is no search term, keeps its columns.  The mutant
\* writes the category column into the object.
WithColumnsInPlace(hp, obj, filters) ==
  IF filters.search_term = <<>>
  THEN [hp EXCEPT ![obj].category = <<filters.p_value_threshold,
                                       filters.log_fc_min,
                                       filters.log_fc_max>>]
  ELSE hp
WithColumns(hp, obj, filters) == hp

\* stats_df = df.group_by("category").agg(count); stats_dict.get(c, 0)
CountCategory(df, c) ==
  LET Is(row) == row.category = c IN Len(Filter(df, Is))
Stats(df) ==
  [up_regulated |-> CountCategory(df, "up"),
   down_regulated |-> CountCategory(df, "down"),
   non_significant |-> CountCategory(df, "non_significant")]

(***************************************************************************)
(* apply_spatial_filter.  A range is <<min, max>> in hundredths, or <<>>   *)
(* for None.                                                               *)
(***************************************************************************)
\* -log10(padj) in hundredths, for padj a power of ten in millionths.
RECURSIVE NegLog10(_)
NegLog10(p) == IF p >= 1000000 THEN 0 ELSE 100 + NegLog10(p * 10)

\* v >= range[0] - 0.2 * (range[1] - range[0]) and
\* v <= range[1] + 0.2 * (range[1] - range[0]), both sides times five.
InBufferedExclusive(v, range) ==
  /\ 5 * v > 5 * range[1] - (range[2] - range[1])
  /\ 5 * v < 5 * range[2] + (range[2] - range[1])
InBuffered(v, range) ==
  /\ 5 * v >= 5 * range[1] - (range[2] - range[1])
  /\ 5 * v <= 5 * range[2] + (range[2] - range[1])

apply_spatial_filter(df, x_range, y_range) ==
  IF x_range = <<>> \/ y_range = <<>> THEN df
  ELSE LET Visible(row) == /\ InBuffered(row.logFC, x_range)
                           /\ InBuffered(NegLog10(row.padj), y_range)
       IN  Filter(df, Visible)

(***************************************************************************)
(* get_lod_max_points.  zoom_level is k*k sixteenths, so that              *)
(* zoom_level ** 1.5 = k^3 / 64.                                           *)
(***************************************************************************)
ZoomRoot(zoom_level) == CHOOSE k \in 0..zoom_level : k * k = zoom_level

\* int(base_points * min(zoom_level ** 1.5, 100))
ScaledPointsUncapped(zoom_level, base_points) ==
  LET k == ZoomRoot(zoom_level)
  IN  IntTrunc(base_points * k * k * k, 64)
ScaledPoints(zoom_level, base_points) ==
  LET k == ZoomRoot(zoom_level)
  IN  IF k * k * k >= 64 * MaxZoomMultiplier
      THEN base_points * MaxZoomMultiplier
      ELSE IntTrunc(base_points * k * k * k, 64)

get_lod_max_points(zoom_level, base_points) ==
  Min(ScaledPoints(zoom_level, base_points), MaxAdaptivePoints)

(***************************************************************************)
(* intelligent_sampling: the set of its possible results (the sample of    *)
(* the non-significant rows is random, and the sort breaks ties in any     *)
(* order).                                                                 *)
(***************************************************************************)
\* sig_ratio = max(0.6 - (zoom_level - 1) * 0.1, 0.3), in 160ths.
SigRatio160(zoom_level) == Max(112 - zoom_level, 48)

\* sig_points = min(int(max_points * sig_ratio), len(significant_df)).  The
\* mutant rounds to the nearest integer where int() truncates.
SigPointsRounded(max_points, zoom_level, n_significant) ==
  Min((2 * max_points * SigRatio160(zoom_level) + 160) \div 320, n_significant)
SigPoints(max_points, zoom_level, n_significant) ==
  Min(IntTrunc(max_points * SigRatio160(zoom_level), 160), n_significant)

IsSignificant(row) == row.category # "non_significant"
IsNonSignificant(row) == row.category = "non_significant"
IsUp(row) == row.category = "up"
IsDown(row) == row.category = "down"

\* The else branch: up_df.head(up_sample) ++ down_df.head(down_sample).
\* The mutant sorts the up rows ascending.
ExtremeSignificantAscending(significant_df, sig_points) ==
  LET n_up == Len(Filter(significant_df, IsUp))
      up_sample == Min(sig_points \div 2, n_up)
      down_sample == sig_points - up_sample
  IN  {DfHead(up_df, up_sample) \o DfHead(down_df, down_sample) :
         up_df \in SortOutcomes(Filter(significant_df, IsUp), FALSE),
         down_df \in SortOutcomes(Filter(significant_df, IsDown), FALSE)}
\* This mutant gives down the half of the quota left by sig_points // 2
\* whatever the up rows took.
ExtremeSignificantNoBackfill(significant_df, sig_points) ==
  LET n_up == Len(Filter(significant_df, IsUp))
      up_sample == Min(sig_points \div 2, n_up)
      down_sample == sig_points - sig_points \div 2
  IN  {DfHead(up_df, up_sample) \o DfHead(down_df, down_sample) :
         up_df \in SortOutcomes(Filter(significant_df, IsUp), TRUE),
         down_df \in SortOutcomes(Filter(significant_df, IsDown), FALSE)}
ExtremeSignificant(significant_df, sig_points) ==
  LET n_up == Len(Filter(significant_df, IsUp))
      up_sample == Min(sig_points \div 2, n_up)
      down_sample == sig_points - up_sample
  IN  {DfHead(up_df, up_sample) \o DfHead(down_df, down_sample) :
         up_df \in SortOutcomes(Filter(significant_df, IsUp), TRUE),
         down_df \in SortOutcomes(Filter(significant_df, IsDown), FALSE)}

\* The number of non-significant rows asked of sample().  The mutant keeps the
\* whole budget for them.
NonSigPointsWholeBudget(max_points, n_selected) == max_points
NonSigPoints(max_points, n_selected) == max_points - n_selected

\* if len(significant_df) <= sig_points: keep all significant rows.  The mutant
\* takes the other branch when the rows just fill the quota.
KeepAllBelowQuota(n_significant, sig_points) == n_significant < sig_points
KeepAll(n_significant, sig_points) == n_significant <= sig_points

intelligent_sampling(df, max_points, zoom_level) ==
  IF Len(df) <= max_points THEN {df}
  ELSE
    LET significant_df == Filter(df, IsSignificant)
        non_significant_df == Filter(df, IsNonSignificant)
        sig_points == SigPoints(max_points, zoom_level, Len(significant_df))
        keep_all == KeepAll(Len(significant_df), sig_points)
        sampled_sigs == IF keep_all THEN {significant_df}
                        ELSE ExtremeSignificant(significant_df, sig_points)
        non_sig_points == IF keep_all
                          THEN NonSigPoints(max_points, Len(significant_df))
                          ELSE NonSigPoints(max_points, sig_points)
    IN  IF non_sig_points > 0 /\ Len(non_significant_df) > 0
        THEN {sampled_sig \o sampled_non_sig :
                sampled_sig \in sampled_sigs,
                sampled_non_sig \in
                  SampleOutcomes(non_significant_df,
                                 Min(non_sig_points, Len(non_significant_df)))}
        ELSE sampled_sigs

(***************************************************************************)
(* The state of the process.                                               *)
(***************************************************************************)
VARIABLES
  _data_cache,                 \* dict: size -> DataFrame object
  get_cached_dataset_lru,      \* the lru_cache of get_cached_dataset, oldest first
  heap,                        \* DataFrame object -> what its rows are made from
  np_random,                   \* the state of numpy's global generator
  _pca_cache,                  \* dict: cache_key -> PCA result
  get_cached_pca_dataset_lru,  \* the lru_cache of get_cached_pca_dataset
  pending,                     \* volcano requests accepted and not yet handled
  request,                     \* the request handled last
  response,                    \* its response
  generated,                   \* history: runs of the generator body, per size
  calls,                       \* history: get_cached_dataset calls of the last handler
  first_data,                  \* history: the object first returned, per size
  awaiting,                    \* history: sizes cached at the last clear, not asked for since
  generated_at_clear,          \* history: `generated` at the last clear
  clears                       \* history: calls of clear_cache

vars ==
  <<_data_cache, get_cached_dataset_lru, heap, np_random, _pca_cache,
    get_cached_pca_dataset_lru, pending, request, response, generated, calls,
    first_data, awaiting, generated_at_clear,
                 clears>>

NoRequest == [kind |-> "none"]
NoResponse == [kind |-> "none"]
NoReq == [size |-> 0]
NoObject == [size |-> 0, n |-> 0]
EmptyMap == [x \in {} |-> 0]

(***************************************************************************)
(* functools.lru_cache: a sequence of [key, value], oldest first.          *)
(***************************************************************************)
LruHit(lru, key) == \E i \in DOMAIN lru : lru[i].key = key
LruValue(lru, key) == lru[CHOOSE i \in DOMAIN lru : lru[i].key = key].value
\* A hit moves the entry to the most recently used end.
LruTouch(lru, key) ==
  LET IsOther(e) == e.key # key
  IN  SelectSeq(lru, IsOther) \o <<[key |-> key, value |-> LruValue(lru, key)]>>
\* A miss stores the result, dropping the oldest entry of a full cache.
LruInsert(lru, key, value, maxsize) ==
  Append(IF Len(lru) >= maxsize THEN Tail(lru) ELSE lru,
         [key |-> key, value |-> value])

(***************************************************************************)
(* get_cached_dataset.  st is the part of the state it reads and writes:   *)
(* [dc, lru, heap, rng, gen].  Its result is [st, obj, ran, raised]: the    *)
(* state it leaves, the DataFrame returned, whether the generator ran, and *)
(* whether the call ended in an exception (then there is no DataFrame).    *)
(***************************************************************************)
\* The cache test at the head of the body.  The mutant forgets it.
InDataCacheForgotten(dc, size) == FALSE
InDataCache(dc, size) == size \in DOMAIN dc

\* The body of get_cached_dataset: runs on a miss of the lru_cache.
get_cached_dataset_body(st, size) ==
  IF InDataCache(st.dc, size)
  THEN [st |-> st, obj |-> st.dc[size], ran |-> FALSE, raised |-> FALSE]
  ELSE LET obj == [size |-> size, n |-> st.gen[size] + 1]
           s0 == NpRandomSeed(st.rng, Seed)
       IN  IF GeneratorRaises(size)
           THEN [st |-> [st EXCEPT
                           !.rng = Advance(s0, DrawsBeforeRaise(size)),
                           !.gen = [@ EXCEPT ![size] = @ + 1]],
                 obj |-> NoObject,
                 ran |-> TRUE,
                 raised |-> TRUE]
           ELSE [st |-> [dc |-> (size :> obj) @@ st.dc,
                         lru |-> st.lru,
                         heap |-> (obj :> [drawn_from |-> s0, category |-> <<>>])
                                    @@ st.heap,
                         rng |-> RngAfterGenerate(size, s0),
                         gen |-> [st.gen EXCEPT ![size] = @ + 1]],
                 obj |-> obj,
                 ran |-> TRUE,
                 raised |-> FALSE]

\* lru_cache stores the result of a call that returns; an exception passes
\* through it and nothing is stored.  The mutant stores whatever the call
\* ended with.
LruAfterCallAlways(lru, key, r) == LruInsert(lru, key, r.obj, LruMaxSize)
LruAfterCall(lru, key, r) ==
  IF r.raised THEN lru ELSE LruInsert(lru, key, r.obj, LruMaxSize)

get_cached_dataset(st, size) ==
  IF LruHit(st.lru, size)
  THEN [st |-> [st EXCEPT !.lru = LruTouch(@, size)],
        obj |-> LruValue(st.lru, size),
        ran |-> FALSE,
        raised |-> FALSE]
  ELSE LET r == get_cached_dataset_body(st, size)
       IN  [st |-> [r.st EXCEPT !.lru = LruAfterCall(@, size, r)],
            obj |-> r.obj,
            ran |-> r.ran,
            raised |-> r.raised]

(***************************************************************************)
(* get_cached_pca_dataset and the PCA endpoint, as far as they touch the   *)
(* shared state: the two PCA caches and numpy's generator.  The projection *)
(* itself (scikit-learn) is not modelled: a result carries the generator   *)
(* state its coordinates were drawn from.  A key is                        *)
(* <<dataset_size, n_features, n_groups, add_batch_effect, noise_level>>.  *)
(***************************************************************************)
\* The draws of the body: per group the separation signal and the samples,
\* then the batch effect.
PcaDraws(key) ==
  LET dataset_size == key[1]
      n_features == key[2]
      n_groups == key[3]
      add_batch_effect == key[4]
  IN  n_groups * Min(10, n_features) + dataset_size * n_features
      + (IF add_batch_effect
         THEN n_features + Min(3, n_groups) * Min(20, n_features)
         ELSE 0)

\* pst is [pc, plru, rng].
get_cached_pca_dataset_body(pst, key) ==
  IF key \in DOMAIN pst.pc
  THEN [pst |-> pst, result |-> pst.pc[key]]
  ELSE LET s0 == NpRandomSeed(pst.rng, Seed)
           result == [total_samples |-> key[1],
                      total_features |-> key[2],
                      n_groups |-> key[3],
                      drawn_from |-> s0]
       IN  [pst |-> [pc |-> (key :> result) @@ pst.pc,
                     plru |-> pst.plru,
                     rng |-> Advance(s0, PcaDraws(key))],
            result |-> result]

get_cached_pca_dataset(pst, key) ==
  IF LruHit(pst.plru, key)
  THEN [pst |-> [pst EXCEPT !.plru = LruTouch(@, key)],
        result |-> LruValue(pst.plru, key)]
  ELSE LET r == get_cached_pca_dataset_body(pst, key)
       IN  [pst |-> [r.pst EXCEPT
                       !.plru = LruInsert(@, key, r.result, PcaLruMaxSize)],
            result |-> r.result]

(***************************************************************************)
(* Requests.                                                               *)
(***************************************************************************)
\* FilterParams with the defaults of the class, for dataset_size = size.
DefaultFilters(size) ==
  [p_value_threshold |-> 50000,
   log_fc_min |-> -50,
   log_fc_max |-> 50,
   search_term |-> <<>>,
   dataset_size |-> size,
   max_points |-> 50000,
   zoom_level |-> 16,
   x_range |-> <<>>,
   y_range |-> <<>>,
   lod_mode |-> TRUE]

\* if size <= 10000000 in warm_cache
WarmSafetyLimit == 10000000

\* The lists of sizes given to warm_cache: a..NumSizes from a hot size or the
\* one after, and 1..b up to the hot sizes.
Range(a, b) == [i \in 1..(b - a + 1) |-> a + i - 1]
WarmLists ==
  {Range(a, NumSizes) : a \in 1..(NumHotSizes + 1)}
    \cup {Range(1, b) : b \in 1..NumHotSizes}

\* The list of the sizes past the hot ones.
ColdSizes == Range(NumHotSizes + 1, NumSizes)

\* The volcano requests for the hot sizes, every other field at its default.
HotFilters == {DefaultFilters(size) : size \in HotSizes}

\* The parameters given to the PCA endpoint:
\* <<dataset_size, n_features, n_groups, add_batch_effect, noise_level (in
\* hundredths), max_points>>.
PcaRequests == {<<150, 10, 2, FALSE, 10, 100>>, <<20, 10, 3, TRUE, 10, 100>>}

St ==
  [dc |-> _data_cache, lru |-> get_cached_dataset_lru, heap |-> heap,
   rng |-> np_random, gen |-> generated]

WithinGenerations(st) == \A s \in DOMAIN st.gen : st.gen[s] <= MaxGenerations

(***************************************************************************)
(* History of the get_cached_dataset calls of a handler.                   *)
(***************************************************************************)
CalledSizes(cs) == {cs[i].size : i \in DOMAIN cs}

\* The object first returned for each size (NoObject before that).
FirstData(cs) ==
  [s \in DOMAIN first_data |->
     IF first_data[s] # NoObject \/ s \notin CalledSizes(cs) THEN first_data[s]
     ELSE cs[CHOOSE i \in DOMAIN cs :
               /\ cs[i].size = s
               /\ \A j \in DOMAIN cs : cs[j].size = s => i <= j].obj]

\* Every request still pending sees what the calls returned for its size.
Seen(pend, cs) ==
  [k \in DOMAIN pend |->
     IF pend[k] = NoReq THEN NoReq
     ELSE [pend[k] EXCEPT
             !.seen = @ \cup {cs[i].obj : i \in {j \in DOMAIN cs :
                                                 cs[j].size = pend[k].size}}]]

(***************************************************************************)
(* POST /api/volcano-data: get_volcano_data.  The set of its possible      *)
(* outcomes from cache state st.                                           *)
(***************************************************************************)
\* effective_max_points.  The mutant scales the budget by the zoom level
\* whatever lod_mode says.
EffectiveMaxPointsAlwaysLod(filters) ==
  get_lod_max_points(filters.zoom_level, filters.max_points)
EffectiveMaxPoints(filters) ==
  IF filters.lod_mode
  THEN get_lod_max_points(filters.zoom_level, filters.max_points)
  ELSE filters.max_points

\* The rows the statistics are computed over: the search-filtered,
\* categorized dataset.
Categorized(df, filters) ==
  categorize_points(SearchFilter(df, filters.search_term),
                    filters.p_value_threshold, filters.log_fc_min,
                    filters.log_fc_max)

\* The rows handed to the sampler.  The mutant computes the statistics after
\* the spatial filter.
SpatiallyFiltered(df, filters) ==
  IF filters.lod_mode /\ filters.x_range # <<>> /\ filters.y_range # <<>>
  THEN apply_spatial_filter(df, filters.x_range, filters.y_range)
  ELSE df

StatsInputAfterSpatialFilter(categorized, filters) ==
  SpatiallyFiltered(categorized, filters)
StatsInput(categorized, filters) == categorized

\* is_downsampled = len(df) > effective_max_points.  The mutant also samples
\* a result that just fits the budget.
IsDownsampledAtBudget(n, effective_max_points) == n >= effective_max_points
IsDownsampled(n, effective_max_points) == n > effective_max_points

\* The stats of the response for the dataset df0.
VolcanoStats(df0, filters) ==
  Stats(StatsInput(Categorized(df0, filters), filters))

\* except Exception as e: raise HTTPException(status_code=500, ...)
ErrorResponse == [kind |-> "error", status_code |-> 500]

get_volcano_data(st, filters) ==
  LET r == get_cached_dataset(st, filters.dataset_size)
      df0 == Rows(r.st.heap, r.obj)
      categorized == Categorized(df0, filters)
      stats == VolcanoStats(df0, filters)
      df == SpatiallyFiltered(categorized, filters)
      effective_max_points == EffectiveMaxPoints(filters)
      is_downsampled == IsDownsampled(Len(df), effective_max_points)
      results == IF is_downsampled
                 THEN intelligent_sampling(df, effective_max_points,
                                           filters.zoom_level)
                 ELSE {df}
  IN  IF r.raised
      THEN {[st |-> r.st, obj |-> r.obj, ran |-> r.ran, raised |-> TRUE,
             response |-> ErrorResponse]}
      ELSE {[st |-> [r.st EXCEPT !.heap = WithColumns(@, r.obj, filters)],
             obj |-> r.obj,
             ran |-> r.ran,
             raised |-> FALSE,
             response |-> [kind |-> "volcano",
                           data |-> data,
                           stats |-> stats,
                           total_rows |-> Len(df0),
                           filtered_rows |-> Len(data),
                           points_before_sampling |-> Len(df),
                           is_downsampled |-> is_downsampled]] :
              data \in results}

\* One volcano request handled; pend is the queue entry it came from, or NoReq.
HandleVolcano(filters, pend, rest) ==
  \E o \in get_volcano_data(St, filters) :
    LET cs == <<[size |-> filters.dataset_size,
                 obj |-> o.obj,
                 ran |-> o.ran,
                 raised |-> o.raised,
                 first_after_clear |-> filters.dataset_size \in awaiting,
                 rng_before |-> np_random,
                 pend |-> pend]>>
    IN  /\ WithinGenerations(o.st)
        /\ _data_cache' = o.st.dc
        /\ get_cached_dataset_lru' = o.st.lru
        /\ heap' = o.st.heap
        /\ np_random' = o.st.rng
        /\ generated' = o.st.gen
        /\ request' = [kind |-> "volcano", filters |-> filters]
        /\ response' = o.response
        /\ calls' = cs
        /\ first_data' = FirstData(cs)
        /\ awaiting' = awaiting \ CalledSizes(cs)
        /\ pending' = Seen(rest, cs)
        /\ UNCHANGED <<_pca_cache, get_cached_pca_dataset_lru, generated_at_clear,
                 clears>>

\* A volcano request for `size` reaches the event loop.
Submit(size) ==
  /\ \E k \in DOMAIN pending : pending[k] = NoReq
  /\ LET k == CHOOSE k \in DOMAIN pending :
                /\ pending[k] = NoReq
                /\ \A j \in DOMAIN pending : pending[j] = NoReq => k <= j
     IN  pending' = [pending EXCEPT
                       ![k] = [size |-> size,
                               miss |-> /\ size \notin DOMAIN _data_cache
                                        /\ ~LruHit(get_cached_dataset_lru, size),
                               gen0 |-> generated[size],
                               cleared |-> FALSE,
                               seen |-> {}]]
  /\ UNCHANGED <<_data_cache, get_cached_dataset_lru, heap, np_random,
                 _pca_cache, get_cached_pca_dataset_lru, request, response,
                 generated, calls, first_data, awaiting, generated_at_clear,
                 clears>>

\* The event loop runs the handler of a pending request.
Serve(k) ==
  /\ pending[k] # NoReq
  /\ HandleVolcano(DefaultFilters(pending[k].size), pending[k],
                   [pending EXCEPT ![k] = NoReq])

\* A volcano request handled as it arrives.
GetVolcanoData(filters) == HandleVolcano(filters, NoReq, pending)

(***************************************************************************)
(* POST /api/warm-cache                                                    *)
(***************************************************************************)
\* The loop of the handler; an exception of get_cached_dataset ends it, the
\* sizes before it staying cached.
RECURSIVE WarmLoop(_, _, _, _)
WarmLoop(st, sizes, cs, cached_sizes) ==
  IF sizes = <<>>
  THEN [st |-> st, calls |-> cs, cached_sizes |-> cached_sizes,
        raised |-> FALSE]
  ELSE LET size == sizes[1]
       IN  IF size <= WarmSafetyLimit
           THEN LET r == get_cached_dataset(st, size)
                    called == Append(cs, [size |-> size,
                                          obj |-> r.obj,
                                          ran |-> r.ran,
                                          raised |-> r.raised,
                                          first_after_clear |->
                                            /\ size \in awaiting
                                            /\ size \notin CalledSizes(cs),
                                          rng_before |-> st.rng,
                                          pend |-> NoReq])
                IN  IF r.raised
                    THEN [st |-> r.st, calls |-> called,
                          cached_sizes |-> cached_sizes, raised |-> TRUE]
                    ELSE WarmLoop(r.st, Tail(sizes), called,
                                  Append(cached_sizes, size))
           ELSE WarmLoop(st, Tail(sizes), cs, cached_sizes)

WarmCache(sizes) ==
  LET w == WarmLoop(St, sizes, <<>>, <<>>)
  IN  /\ WithinGenerations(w.st)
      /\ _data_cache' = w.st.dc
      /\ get_cached_dataset_lru' = w.st.lru
      /\ heap' = w.st.heap
      /\ np_random' = w.st.rng
      /\ generated' = w.st.gen
      /\ request' = [kind |-> "warm_cache", sizes |-> sizes]
      /\ response' = IF w.raised THEN ErrorResponse
                      ELSE [kind |-> "warm_cache",
                            cached_sizes |-> w.cached_sizes,
                            total_cached |-> Cardinality(DOMAIN w.st.dc)]
      /\ calls' = w.calls
      /\ first_data' = FirstData(w.calls)
      /\ awaiting' = awaiting \ CalledSizes(w.calls)
      /\ pending' = Seen(pending, w.calls)
      /\ UNCHANGED <<_pca_cache, get_cached_pca_dataset_lru, generated_at_clear,
                 clears>>

(***************************************************************************)
(* GET /api/cache-status, GET /api/pca-cache-status, POST /api/clear-cache *)
(***************************************************************************)
CacheStatus ==
  /\ request' = [kind |-> "cache_status"]
  /\ response' = [kind |-> "cache_status",
                  cached_datasets |-> DOMAIN _data_cache,
                  total_cached |-> Cardinality(DOMAIN _data_cache)]
  /\ calls' = <<>>
  /\ UNCHANGED <<_data_cache, get_cached_dataset_lru, heap, np_random,
                 _pca_cache, get_cached_pca_dataset_lru, pending, generated,
                 first_data, awaiting, generated_at_clear,
                 clears>>

PcaCacheStatus ==
  /\ request' = [kind |-> "pca_cache_status"]
  /\ response' = [kind |-> "pca_cache_status",
                  cached_datasets |-> DOMAIN _pca_cache,
                  total_cached |-> Cardinality(DOMAIN _pca_cache)]
  /\ calls' = <<>>
  /\ UNCHANGED <<_data_cache, get_cached_dataset_lru, heap, np_random,
                 _pca_cache, get_cached_pca_dataset_lru, pending, generated,
                 first_data, awaiting, generated_at_clear,
                 clears>>

\* _data_cache.clear(); _pca_cache.clear(); the sizes in the response are read
\* after the clear.  Neither lru_cache is cleared.
ClearCache ==
  /\ clears < MaxClears
  /\ clears' = clears + 1
  /\ _data_cache' = EmptyMap
  /\ _pca_cache' = EmptyMap
  /\ request' = [kind |-> "clear_cache"]
  /\ response' = [kind |-> "clear_cache",
                  volcano_cache_size |-> Cardinality(DOMAIN _data_cache'),
                  pca_cache_size |-> Cardinality(DOMAIN _pca_cache')]
  /\ calls' = <<>>
  /\ awaiting' = DOMAIN _data_cache
  /\ generated_at_clear' = generated
  /\ pending' = [k \in DOMAIN pending |->
                   IF pending[k] = NoReq THEN NoReq
                   ELSE [pending[k] EXCEPT !.cleared = TRUE]]
  /\ UNCHANGED <<get_cached_dataset_lru, heap, np_random,
                 get_cached_pca_dataset_lru, generated, first_data>>

(***************************************************************************)
(* GET /api/pca-data                                                       *)
(***************************************************************************)
GetPcaData(params) ==
  LET key == <<params[1], params[2], params[3], params[4], params[5]>>
      max_points == params[6]
      r == get_cached_pca_dataset(
             [pc |-> _pca_cache, plru |-> get_cached_pca_dataset_lru,
              rng |-> np_random], key)
      points_before_sampling == r.result.total_samples
      is_downsampled == points_before_sampling > max_points
  IN  /\ _pca_cache' = r.pst.pc
      /\ get_cached_pca_dataset_lru' = r.pst.plru
         \* np.random.choice(n, size=max_points, replace=False) permutes 0..n-1
      /\ np_random' = IF is_downsampled
                      THEN Advance(r.pst.rng, points_before_sampling)
                      ELSE r.pst.rng
      /\ request' = [kind |-> "pca", params |-> params]
      /\ response' = [kind |-> "pca",
                      n_points |-> IF is_downsampled THEN max_points
                                   ELSE points_before_sampling,
                      is_downsampled |-> is_downsampled,
                      points_before_sampling |-> points_before_sampling]
      /\ calls' = <<>>
      /\ UNCHANGED <<_data_cache, get_cached_dataset_lru, heap, pending,
                     generated, first_data, awaiting, generated_at_clear,
                 clears>>

(***************************************************************************)
(* The server: cache traffic with the default filters.                     *)
(***************************************************************************)
Init ==
  /\ _data_cache = EmptyMap
  /\ get_cached_dataset_lru = <<>>
  /\ heap = EmptyMap
  /\ np_random \in 0..(RngMod - 1)   \* numpy seeds itself from the system
  /\ _pca_cache = EmptyMap
  /\ get_cached_pca_dataset_lru = <<>>
  /\ pending = [k \in 1..MaxPending |-> NoReq]
  /\ request = NoRequest
  /\ response = NoResponse
  /\ generated = [s \in Sizes |-> 0]
  /\ calls = <<>>
  /\ first_data = [s \in Sizes |-> NoObject]
  /\ awaiting = {}
  /\ generated_at_clear = [s \in Sizes |-> 0]
  /\ clears = 0

Next ==
  \/ \E filters \in HotFilters : GetVolcanoData(filters)
  \/ \E sizes \in WarmLists : WarmCache(sizes)
  \/ CacheStatus
  \/ ClearCache

Spec == Init /\ [][Next]_vars

(***************************************************************************)
(* The server with the PCA endpoints, which draw from numpy's generator    *)
(* between the volcano requests.                                           *)
(***************************************************************************)
NextPca ==
  \/ \E filters \in HotFilters : GetVolcanoData(filters)
  \/ \E sizes \in {ColdSizes} : WarmCache(sizes)
  \/ ClearCache
  \/ \E params \in PcaRequests : GetPcaData(params)
  \/ PcaCacheStatus

SpecPca == Init /\ [][NextPca]_vars

(***************************************************************************)
(* The server with volcano requests queued at the event loop: several      *)
(* callers ask for a size before any of them is handled.                   *)
(***************************************************************************)
NextQueued ==
  \/ \E size \in HotSizes : Submit(size)
  \/ \E k \in 1..MaxPending : Serve(k)
  \/ \E sizes \in {ColdSizes} : WarmCache(sizes)
  \/ ClearCache

SpecQueued == Init /\ [][NextQueued]_vars

(***************************************************************************)
(* The server with the requests that the POST endpoints let through:       *)
(* FilterParams declares no bound on a field (the Query bounds of the GET  *)
(* form are not those of the model class), and warm_cache takes any list   *)
(* of ints.  dataset_size is negative, zero or a hot size, and log_fc_max  *)
(* is the default or below the default log_fc_min.                         *)
(***************************************************************************)
UnvalidatedFilters ==
  {[DefaultFilters(size) EXCEPT !.log_fc_max = log_fc_max] :
     size \in {-1, 0} \cup HotSizes, log_fc_max \in {50, -100}}

UnvalidatedWarmLists == {<<1, -1, 2>>, <<2, 0, 1>>, <<-1>>}

NextUnvalidated ==
  \/ \E filters \in UnvalidatedFilters : GetVolcanoData(filters)
  \/ \E sizes \in UnvalidatedWarmLists : WarmCache(sizes)
  \/ CacheStatus
  \/ ClearCache

SpecUnvalidated == Init /\ [][NextUnvalidated]_vars

(***************************************************************************)
(* The server with volcano requests that differ in their thresholds,       *)
(* search term and viewport, all on one dataset size.                      *)
(***************************************************************************)
ThresholdFilters ==
  {[DefaultFilters(QuerySize) EXCEPT !.p_value_threshold = p_value_threshold,
                                     !.log_fc_min = log_fc_min,
                                     !.log_fc_max = log_fc_max,
                                     !.search_term = search_term,
                                     !.x_range = range[1],
                                     !.y_range = range[2]] :
     p_value_threshold \in {50000, 1000000},
     log_fc_min \in {-50, -150},
     log_fc_max \in {50, 0},
     search_term \in {<<>>, <<"T">>},
     range \in {<< <<>>, <<>> >>, << <<-100, 100>>, <<0, 250>> >>}}

NextQueries ==
  \/ \E filters \in ThresholdFilters : GetVolcanoData(filters)
  \/ CacheStatus

SpecQueries == Init /\ [][NextQueries]_vars

(***************************************************************************)
(* The query pipeline, one operation at a time: from the initial state,    *)
(* either one of the pipeline's functions is called directly on arguments  *)
(* drawn from the sets below, or one volcano request with arbitrary        *)
(* filters is handled.  A direct call is recorded in request (the function *)
(* and its arguments) and response (the value returned).                   *)
(***************************************************************************)
Digits == <<"1", "2", "3", "4", "5", "6", "7", "8", "9">>

\* A row of the arguments: the i-th row of its DataFrame.
Row(i, logFC, padj) ==
  [gene |-> <<"M", Digits[i]>>,
   logFC |-> logFC,
   padj |-> padj,
   classyfireSuperclass |-> 0,
   classyfireClass |-> 0]

CategorizedRow(i, logFC, padj, category) ==
  [gene |-> <<"M", Digits[i]>>,
   logFC |-> logFC,
   padj |-> padj,
   classyfireSuperclass |-> 0,
   classyfireClass |-> 0,
   category |-> category]

\* The sequences of up to n of the given kinds of row.
KindsOfRows(kinds, n) ==
  UNION {{[i \in 1..len |-> kinds[f[i]]] : f \in [1..len -> DOMAIN kinds]} :
           len \in 0..n}

\* Arguments of categorize_points: padj 0.01 and 0.1, logFC -1, 0 and 1;
\* thresholds on and off these values, log_fc_min above log_fc_max included.
CategorizeKinds ==
  <<[logFC |-> -100, padj |-> 10000], [logFC |-> 0, padj |-> 10000],
    [logFC |-> 100, padj |-> 10000], [logFC |-> -100, padj |-> 100000],
    [logFC |-> 0, padj |-> 100000], [logFC |-> 100, padj |-> 100000]>>
CategorizeRow(i, kind) == Row(i, kind.logFC, kind.padj)
CategorizeFrames ==
  {[i \in DOMAIN ks |-> CategorizeRow(i, ks[i])] :
     ks \in KindsOfRows(CategorizeKinds, MaxCategorizeRows)}
PThresholds == {10000, 50000}
LogFcMins == {-100, -50, 50}
LogFcMaxs == {-50, 50, 100}

\* Arguments of apply_spatial_filter: logFC at 0.19, 0.20 and 0.21 of the
\* width beyond the upper end of [-1, 1], at the lower edge of the buffer and
\* inside; padj 1, 0.001 and 0.0001 (-log10: 0, 3, 4).
SpatialKinds ==
  <<[logFC |-> 138, padj |-> 1000000], [logFC |-> 140, padj |-> 1000000],
    [logFC |-> 142, padj |-> 1000000], [logFC |-> -140, padj |-> 1000000],
    [logFC |-> 0, padj |-> 1000000], [logFC |-> 138, padj |-> 1000],
    [logFC |-> 140, padj |-> 1000], [logFC |-> 0, padj |-> 1000],
    [logFC |-> 0, padj |-> 100], [logFC |-> 140, padj |-> 100]>>
SpatialRow(i, kind) ==
  CategorizedRow(i, kind.logFC, kind.padj, "non_significant")
SpatialFrames ==
  {[i \in DOMAIN ks |-> SpatialRow(i, ks[i])] :
     ks \in KindsOfRows(SpatialKinds, MaxSpatialRows)}
XRanges == {<<>>, <<-100, 100>>, <<100, 100>>, <<100, -100>>}
YRanges == {<<>>, <<0, 250>>}

\* Arguments of get_lod_max_points: zoom (k/4)^2 for k up to MaxZoomRoot.
ZoomLevels == {k * k : k \in 1..MaxZoomRoot}
BasePoints == {0, 1, 10, 2000, 2500, 50000, 200000}

\* Arguments of intelligent_sampling: rows up at 1 and 2, down at -1 and -2,
\* non-significant at 0; budgets 0..MaxBudget; zoom 0.25, 1 and 4.
SamplingKinds ==
  <<[logFC |-> 100, padj |-> 1000, category |-> "up"],
    [logFC |-> 200, padj |-> 1000, category |-> "up"],
    [logFC |-> -100, padj |-> 1000, category |-> "down"],
    [logFC |-> -200, padj |-> 1000, category |-> "down"],
    [logFC |-> 0, padj |-> 1000000, category |-> "non_significant"]>>
SamplingRow(i, kind) == CategorizedRow(i, kind.logFC, kind.padj, kind.category)
SamplingFrames ==
  {[i \in DOMAIN ks |-> SamplingRow(i, ks[i])] :
     ks \in KindsOfRows(SamplingKinds, MaxSamplingRows)}
SamplingZooms == {4, 16, 64}

\* The filters of the volcano requests.
QueryFilters ==
  {[DefaultFilters(QuerySize) EXCEPT
      !.p_value_threshold = p_value_threshold,
      !.log_fc_max = log_fc_max,
      !.search_term = search_term,
      !.max_points = max_points,
      !.zoom_level = zoom_level,
      !.x_range = x_range,
      !.y_range = y_range,
      !.lod_mode = lod_mode] :
     p_value_threshold \in {50000, 1000000},
     log_fc_max \in {50, -100},
     search_term \in {<<>>, <<"T">>},
     max_points \in {2, 50000},
     zoom_level \in SamplingZooms,
     x_range \in {<<>>, <<-100, 100>>},
     y_range \in {<<>>, <<0, 250>>},
     lod_mode \in BOOLEAN}

\* A direct call: nothing but request and response changes.
Called(req, value) ==
  /\ request' = req
  /\ response' = [kind |-> "returned", value |-> value]
  /\ UNCHANGED <<_data_cache, get_cached_dataset_lru, heap, np_random,
                 _pca_cache, get_cached_pca_dataset_lru, pending, generated,
                 calls, first_data, awaiting, generated_at_clear, clears>>

CallCategorizePoints(df, p_threshold, log_fc_min, log_fc_max) ==
  Called([kind |-> "categorize_points", df |-> df,
          p_threshold |-> p_threshold, log_fc_min |-> log_fc_min,
          log_fc_max |-> log_fc_max],
         categorize_points(df, p_threshold, log_fc_min, log_fc_max))

CallApplySpatialFilter(df, x_range, y_range) ==
  Called([kind |-> "apply_spatial_filter", df |-> df, x_range |-> x_range,
          y_range |-> y_range],
         apply_spatial_filter(df, x_range, y_range))

CallGetLodMaxPoints(zoom_level, base_points) ==
  Called([kind |-> "get_lod_max_points", zoom_level |-> zoom_level,
          base_points |-> base_points],
         get_lod_max_points(zoom_level, base_points))

CallIntelligentSampling(df, max_points, zoom_level) ==
  \E sampled \in intelligent_sampling(df, max_points, zoom_level) :
    Called([kind |-> "intelligent_sampling", df |-> df,
            max_points |-> max_points, zoom_level |-> zoom_level],
           sampled)

\* One operation, from the initial state.
DirectCategorizePoints ==
  /\ request = NoRequest
  /\ \E df \in CategorizeFrames, p \in PThresholds, lo \in LogFcMins,
        hi \in LogFcMaxs : CallCategorizePoints(df, p, lo, hi)

DirectApplySpatialFilter ==
  /\ request = NoRequest
  /\ \E df \in SpatialFrames, x_range \in XRanges, y_range \in YRanges :
       CallApplySpatialFilter(df, x_range, y_range)

DirectGetLodMaxPoints ==
  /\ request = NoRequest
  /\ \E zoom_level \in ZoomLevels, base_points \in BasePoints :
       CallGetLodMaxPoints(zoom_level, base_points)

DirectIntelligentSampling ==
  /\ request = NoRequest
  /\ \E df \in SamplingFrames, max_points \in 0..MaxBudget,
        zoom_level \in SamplingZooms :
       CallIntelligentSampling(df, max_points, zoom_level)

FirstVolcanoData ==
  /\ request = NoRequest
  /\ \E filters \in QueryFilters : GetVolcanoData(filters)

NextCall ==
  \/ DirectCategorizePoints
  \/ DirectApplySpatialFilter
  \/ DirectGetLodMaxPoints
  \/ DirectIntelligentSampling
  \/ FirstVolcanoData

SpecCall == Init /\ [][NextCall]_vars

(***************************************************************************)
(* The dataset cache: clear, single flight, bound, determinism.            *)
(***************************************************************************)
\* C1: after clear_cache the cache reports zero keys, and the first
\* get_cached_dataset for a size that was cached before the clear runs the
\* generator again, returns an object generated after the clear, and leaves
\* the size listed in _data_cache.
C1_ClearThenRegenerate ==
  /\ request.kind = "clear_cache" => DOMAIN _data_cache = {}
  /\ \A i \in DOMAIN calls :
       calls[i].first_after_clear =>
         /\ calls[i].ran
         /\ calls[i].obj.n > generated_at_clear[calls[i].size]
         /\ calls[i].size \in DOMAIN _data_cache

\* C2: a caller that asked for a size while it was cached nowhere, and was
\* handled without a clear_cache in between, finds the generator to have run
\* at most once for that size since it asked; and the rows it receives are the
\* rows every caller handled while it was waiting received for that size.
C2_SingleFlight ==
  \A i \in DOMAIN calls :
    LET c == calls[i] IN
      c.pend # NoReq =>
        /\ (c.pend.miss /\ ~c.pend.cleared) =>
             generated[c.size] - c.pend.gen0 <= 1
        /\ \A o \in c.pend.seen : Rows(heap, o) = Rows(heap, c.obj)

\* C2 witness: a caller that asked while the size was cached nowhere is handled
\* after another caller of the same size was, with no clear in between.
C2_Witness ==
  \E i \in DOMAIN calls :
    /\ calls[i].pend # NoReq
    /\ calls[i].pend.miss
    /\ ~calls[i].pend.cleared
    /\ calls[i].pend.seen # {}
    /\ generated[calls[i].size] = calls[i].pend.gen0 + 1

\* C3: the number of datasets held in _data_cache never exceeds the entry
\* ceiling of the cache (the maxsize of the lru_cache).
C3_CacheBounded == Cardinality(DOMAIN _data_cache) <= LruMaxSize

\* C4: all datasets generated for a size have the same rows in the same order,
\* and every get_cached_dataset call returns the rows first returned for its
\* size, whatever ran in between.
C4_Deterministic ==
  /\ \A o1, o2 \in DOMAIN heap :
       o1.size = o2.size => Rows(heap, o1) = Rows(heap, o2)
  /\ \A i \in DOMAIN calls :
       Rows(heap, calls[i].obj) = Rows(heap, first_data[calls[i].size])

\* C4 witness: a size is generated a second time (after a clear and an
\* eviction), with numpy's generator left in another state than the seeded one
\* by the PCA endpoint, and PCA data cached since the clear.
C4_Witness ==
  \E i \in DOMAIN calls :
    /\ calls[i].ran
    /\ calls[i].obj.n = 2
    /\ calls[i].rng_before # NpRandomSeed(calls[i].rng_before, Seed)
    /\ DOMAIN _pca_cache # {}
    /\ response.kind = "volcano"

(***************************************************************************)
(* The query pipeline: sampling, statistics, categories, budget, viewport. *)
(***************************************************************************)
\* The row is one of the rows of df.
In(row, df) == \E k \in DOMAIN df : df[k] = row

\* The effective budget of a request, in the words of the specification.
EffectiveBudget(filters) ==
  IF filters.lod_mode
  THEN Min(IF ZoomRoot(filters.zoom_level) * ZoomRoot(filters.zoom_level)
                * ZoomRoot(filters.zoom_level) >= 64 * MaxZoomMultiplier
           THEN filters.max_points * MaxZoomMultiplier
           ELSE (filters.max_points * ZoomRoot(filters.zoom_level)
                   * ZoomRoot(filters.zoom_level)
                   * ZoomRoot(filters.zoom_level)) \div 64,
           MaxAdaptivePoints)
  ELSE filters.max_points

\* C5: intelligent_sampling returns at most max_points rows, and returns its
\* input unchanged when the input has at most max_points rows (budgets from 0
\* up, zoom levels within [0.1, 100]); and the filtered_rows of every volcano
\* response is the number of rows returned and is at most the effective budget
\* of the request.
C5_SamplingBounded ==
  /\ request.kind = "intelligent_sampling" =>
       /\ Len(response.value) <= request.max_points
       /\ Len(request.df) <= request.max_points => response.value = request.df
  /\ response.kind = "volcano" =>
       /\ response.filtered_rows = Len(response.data)
       /\ response.filtered_rows <= EffectiveBudget(request.filters)

\* C5 witness: a volcano request in LOD mode is downsampled to exactly its
\* budget, significant and non-significant rows both among the rows returned.
C5_Witness ==
  /\ response.kind = "volcano"
  /\ request.filters.lod_mode
  /\ response.is_downsampled
  /\ response.filtered_rows = EffectiveBudget(request.filters)
  /\ response.filtered_rows < response.points_before_sampling
  /\ \E i, j \in DOMAIN response.data :
       /\ response.data[i].category = "non_significant"
       /\ response.data[j].category # "non_significant"

\* C6: the stats of a volcano response are the per-category counts of the
\* search-filtered, categorized dataset before the spatial filter and the
\* sampling; they sum to the number of rows after the search filter (the
\* dataset size without a search term); and a request differing only in
\* x_range, y_range, zoom_level, max_points and lod_mode gets the same stats.
C6_StatsConservation ==
  response.kind = "volcano" =>
    LET filters == request.filters
        searched == SearchFilter(Rows(heap, calls[1].obj), filters.search_term)
        Count(c) ==
          Cardinality({i \in DOMAIN searched :
                         Category(searched[i], filters.p_value_threshold,
                                  filters.log_fc_min, filters.log_fc_max) = c})
        total == response.stats.up_regulated + response.stats.down_regulated
                   + response.stats.non_significant
    IN  /\ response.stats.up_regulated = Count("up")
        /\ response.stats.down_regulated = Count("down")
        /\ response.stats.non_significant = Count("non_significant")
        /\ total = Len(searched)
        /\ filters.search_term = <<>> => total = filters.dataset_size
        /\ \A other \in QueryFilters :
             ( /\ other.dataset_size = filters.dataset_size
               /\ other.search_term = filters.search_term
               /\ other.p_value_threshold = filters.p_value_threshold
               /\ other.log_fc_min = filters.log_fc_min
               /\ other.log_fc_max = filters.log_fc_max )
             => VolcanoStats(Rows(heap, calls[1].obj), other) = response.stats

\* C6 witness: a request with a search term in LOD mode whose viewport and
\* budget both drop rows: fewer rows before sampling than the stats count, and
\* fewer rows returned than before sampling.
C6_Witness ==
  /\ response.kind = "volcano"
  /\ request.filters.search_term # <<>>
  /\ response.stats.up_regulated + response.stats.down_regulated
       + response.stats.non_significant < response.total_rows
  /\ response.points_before_sampling
       < response.stats.up_regulated + response.stats.down_regulated
           + response.stats.non_significant
  /\ response.filtered_rows < response.points_before_sampling

\* C7: categorize_points returns the rows of its input in the same order, each
\* with one category: down if padj <= p_threshold and logFC < log_fc_min;
\* otherwise up if padj <= p_threshold and logFC > log_fc_max; otherwise
\* non_significant -- also when log_fc_min > log_fc_max.
C7_FirstMatch ==
  request.kind = "categorize_points" =>
    /\ Len(response.value) = Len(request.df)
    /\ \A i \in DOMAIN request.df :
         LET row == request.df[i]
             out == response.value[i]
             down == row.padj <= request.p_threshold
                       /\ row.logFC < request.log_fc_min
             up == row.padj <= request.p_threshold
                     /\ row.logFC > request.log_fc_max
         IN  /\ out.gene = row.gene
             /\ out.logFC = row.logFC
             /\ out.padj = row.padj
             /\ out.classyfireSuperclass = row.classyfireSuperclass
             /\ out.classyfireClass = row.classyfireClass
             /\ out.category \in {"down", "up", "non_significant"}
             /\ down => out.category = "down"
             /\ (~down /\ up) => out.category = "up"
             /\ (~down /\ ~up) => out.category = "non_significant"

\* C7 witness: log_fc_min > log_fc_max and a row passing both tests is down,
\* next to a row that is not.
C7_Witness ==
  /\ request.kind = "categorize_points"
  /\ request.log_fc_min > request.log_fc_max
  /\ \E i, j \in DOMAIN request.df :
       /\ request.df[i].padj <= request.p_threshold
       /\ request.df[i].logFC < request.log_fc_min
       /\ request.df[i].logFC > request.log_fc_max
       /\ response.value[i].category = "down"
       /\ response.value[j].category = "up"

\* floor(base * min(zoom^1.5, 100)) capped at 200000, zoom = (k/4)^2.
Budget(k, base) ==
  Min(IF k * k * k >= 64 * MaxZoomMultiplier THEN base * MaxZoomMultiplier
      ELSE (base * k * k * k) \div 64,
      MaxAdaptivePoints)

\* C8: get_lod_max_points(zoom, base) is min(floor(base * min(zoom^1.5, 100)),
\* 200000) (base a count, 0 or more); no smaller zoom gives more and no larger
\* zoom gives less; it is the same for every zoom at which zoom^1.5 has
\* reached 100; and it is at most 200000.
C8_BudgetMonotonic ==
  request.kind = "get_lod_max_points" =>
    LET k == ZoomRoot(request.zoom_level)
        base == request.base_points
    IN  /\ response.value = Budget(k, base)
        /\ response.value <= MaxAdaptivePoints
        /\ \A other \in ZoomLevels :
             /\ other <= request.zoom_level =>
                  get_lod_max_points(other, base) <= response.value
             /\ other >= request.zoom_level =>
                  get_lod_max_points(other, base) >= response.value
             /\ ( /\ k * k * k >= 64 * MaxZoomMultiplier
                  /\ ZoomRoot(other) * ZoomRoot(other) * ZoomRoot(other)
                       >= 64 * MaxZoomMultiplier )
                => get_lod_max_points(other, base) = response.value

\* C8 witness: a call past the multiplier cap whose result is 100 times the
\* base and below the ceiling, with a smaller zoom that gives less.
C8_Witness ==
  /\ request.kind = "get_lod_max_points"
  /\ ZoomRoot(request.zoom_level) * ZoomRoot(request.zoom_level)
       * ZoomRoot(request.zoom_level) > 64 * MaxZoomMultiplier
  /\ response.value = request.base_points * MaxZoomMultiplier
  /\ response.value < MaxAdaptivePoints
  /\ \E other \in ZoomLevels :
       /\ other < request.zoom_level
       /\ get_lod_max_points(other, request.base_points) < response.value

\* C9: when intelligent_sampling downsamples, no up row left out has a higher
\* logFC than an up row returned, and no down row left out has a lower logFC
\* than a down row returned.
C9_ExtremityPriority ==
  ( /\ request.kind = "intelligent_sampling"
    /\ Len(request.df) > request.max_points )
  => \A i, j \in DOMAIN request.df :
       ( /\ In(request.df[i], response.value)
         /\ ~In(request.df[j], response.value) )
       => /\ ( /\ request.df[i].category = "up"
               /\ request.df[j].category = "up" )
             => request.df[j].logFC <= request.df[i].logFC
          /\ ( /\ request.df[i].category = "down"
               /\ request.df[j].category = "down" )
             => request.df[j].logFC >= request.df[i].logFC

\* C9 witness: a downsampling that returns an up row and leaves out one of
\* lower logFC, and returns a down row and leaves out one of higher logFC.
C9_Witness ==
  /\ request.kind = "intelligent_sampling"
  /\ Len(request.df) > request.max_points
  /\ \E i, j \in DOMAIN request.df :
       /\ request.df[i].category = "up"
       /\ request.df[j].category = "up"
       /\ In(request.df[i], response.value)
       /\ ~In(request.df[j], response.value)
       /\ request.df[j].logFC < request.df[i].logFC
  /\ \E i, j \in DOMAIN request.df :
       /\ request.df[i].category = "down"
       /\ request.df[j].category = "down"
       /\ In(request.df[i], response.value)
       /\ ~In(request.df[j], response.value)
       /\ request.df[j].logFC > request.df[i].logFC

\* v within [range[1] - 0.2 * width, range[2] + 0.2 * width], ends included
\* (every term times five).
WithinBuffer(v, range) ==
  /\ 5 * range[1] - (range[2] - range[1]) <= 5 * v
  /\ 5 * v <= 5 * range[2] + (range[2] - range[1])

\* C10: apply_spatial_filter returns its input when x_range or y_range is
\* missing; otherwise it returns, in order, exactly the rows with logFC within
\* the x range widened by 0.2 of its width at each end and -log10(padj) within
\* the y range widened likewise, ends included; so with a range of positive
\* width a row at x_max + 0.19 * width is kept and one at x_max + 0.21 * width
\* is dropped (-log10(padj) being within its bounds).
C10_SpatialBuffer ==
  request.kind = "apply_spatial_filter" =>
    IF request.x_range = <<>> \/ request.y_range = <<>>
    THEN response.value = request.df
    ELSE LET df == request.df
             x_range == request.x_range
             y_range == request.y_range
             width == x_range[2] - x_range[1]
             Kept(row) == /\ WithinBuffer(row.logFC, x_range)
                          /\ WithinBuffer(NegLog10(row.padj), y_range)
         IN  /\ response.value = SelectSeq(df, Kept)
             /\ \A i \in DOMAIN df :
                  ( /\ width > 0
                    /\ WithinBuffer(NegLog10(df[i].padj), y_range) )
                  => /\ 100 * (df[i].logFC - x_range[2]) = 19 * width
                          => In(df[i], response.value)
                     /\ 100 * (df[i].logFC - x_range[2]) = 21 * width
                          => ~In(df[i], response.value)

\* C10 witness: with a viewport of positive width, a row at 0.19 of the width
\* beyond x_max and a row on the end of the buffer are kept, and a row at 0.21
\* is dropped.
C10_Witness ==
  /\ request.kind = "apply_spatial_filter"
  /\ request.x_range # <<>>
  /\ request.y_range # <<>>
  /\ request.x_range[2] > request.x_range[1]
  /\ Len(request.df) = Len(response.value) + 1
  /\ \E i, j \in DOMAIN request.df :
       /\ 100 * (request.df[i].logFC - request.x_range[2])
            = 21 * (request.x_range[2] - request.x_range[1])
       /\ ~In(request.df[i], response.value)
       /\ 100 * (request.df[j].logFC - request.x_range[2])
            = 19 * (request.x_range[2] - request.x_range[1])
       /\ In(request.df[j], response.value)

\* The rows of a request's dataset left by the search and by the viewport, in
\* the words of the specification: the viewport applies in LOD mode when both
\* ranges are given.
InViewport(df0, filters) ==
  LET searched == SearchFilter(df0, filters.search_term)
      Kept(row) == /\ WithinBuffer(row.logFC, filters.x_range)
                   /\ WithinBuffer(NegLog10(row.padj), filters.y_range)
  IN  IF filters.lod_mode /\ filters.x_range # <<>> /\ filters.y_range # <<>>
      THEN SelectSeq(searched, Kept)
      ELSE searched

\* C11: in every volcano response points_before_sampling is the number of rows
\* left by the spatial filter and filtered_rows the number of rows returned;
\* is_downsampled is true exactly when points_before_sampling exceeds the
\* effective budget; fewer rows returned than before sampling implies
\* is_downsampled, and is_downsampled false implies that the two are equal.
C11_NoSilentTruncation ==
  response.kind = "volcano" =>
    /\ response.points_before_sampling
         = Len(InViewport(Rows(heap, calls[1].obj), request.filters))
    /\ response.filtered_rows = Len(response.data)
    /\ response.is_downsampled
         <=> response.points_before_sampling > EffectiveBudget(request.filters)
    /\ response.filtered_rows < response.points_before_sampling
         => response.is_downsampled
    /\ ~response.is_downsampled
         => response.filtered_rows = response.points_before_sampling

\* C11 witness: the viewport of a request drops rows of the dataset and the
\* budget drops more of them: a downsampled response returning fewer rows than
\* it had before sampling.
C11_Witness ==
  /\ response.kind = "volcano"
  /\ request.filters.search_term = <<>>
  /\ response.points_before_sampling < response.total_rows
  /\ response.is_downsampled
  /\ response.filtered_rows < response.points_before_sampling

\* C12: a volcano request with log_fc_min > log_fc_max or with a dataset_size
\* that is not positive ends with an error before any work is done: no result
\* is returned, no dataset is generated by it, and no cache holds an entry for
\* a dataset_size that is not positive.
C12_InvalidRejected ==
  ( /\ request.kind = "volcano"
    /\ \/ request.filters.log_fc_min > request.filters.log_fc_max
       \/ request.filters.dataset_size <= 0 )
  => /\ response.kind = "error"
     /\ calls[1].ran => calls[1].raised
     /\ request.filters.dataset_size <= 0
          => /\ request.filters.dataset_size \notin DOMAIN _data_cache
             /\ ~LruHit(get_cached_dataset_lru, request.filters.dataset_size)

\* C13: when the generator raises in a request, the request ends with a
\* service error (HTTP 500) and the failing size is in neither _data_cache nor
\* the lru cache afterwards; the entries of the sizes that the request did not
\* obtain are the ones from before the request, in both caches; and a request
\* for a size whose generation was attempted before and that is in neither
\* cache runs the generator again.
C13_FailureLeavesNoEntry ==
  [][ /\ \A i \in DOMAIN calls' :
           calls'[i].raised =>
             /\ response'.kind = "error"
             /\ response'.status_code = 500
             /\ calls'[i].size \notin DOMAIN _data_cache'
             /\ ~LruHit(get_cached_dataset_lru', calls'[i].size)
             /\ \A s \in Sizes \ {calls'[j].size : j \in 1..(i - 1)} :
                  /\ s \in DOMAIN _data_cache' <=> s \in DOMAIN _data_cache
                  /\ s \in DOMAIN _data_cache
                       => _data_cache'[s] = _data_cache[s]
                  /\ LruHit(get_cached_dataset_lru', s)
                       <=> LruHit(get_cached_dataset_lru, s)
                  /\ LruHit(get_cached_dataset_lru, s)
                       => LruValue(get_cached_dataset_lru', s)
                            = LruValue(get_cached_dataset_lru, s)
      /\ \A i \in DOMAIN calls' :
           ( /\ generated[calls'[i].size] > 0
             /\ calls'[i].size \notin DOMAIN _data_cache
             /\ ~LruHit(get_cached_dataset_lru, calls'[i].size)
             /\ \A j \in 1..(i - 1) : calls'[j].size # calls'[i].size )
           => /\ calls'[i].ran
              /\ generated'[calls'[i].size] = generated[calls'[i].size] + 1
    ]_vars

\* C13 witness: a volcano request for a size whose generation failed before
\* fails again, the generator having run both times, while another size is
\* cached.
C13_Witness ==
  /\ request.kind = "volcano"
  /\ response.kind = "error"
  /\ calls[1].raised
  /\ generated[calls[1].size] = 2
  /\ DOMAIN _data_cache # {}
  /\ get_cached_dataset_lru # <<>>

\* C14: clear_cache leaves both caches without entries, and the counts in its
\* response are the numbers of entries that _data_cache and _pca_cache held
\* immediately before the call.
C14_ClearCounts ==
  [][ clears' = clears + 1 =>
        /\ DOMAIN _data_cache' = {}
        /\ DOMAIN _pca_cache' = {}
        /\ response'.volcano_cache_size = Cardinality(DOMAIN _data_cache)
        /\ response'.pca_cache_size = Cardinality(DOMAIN _pca_cache)
    ]_vars

\* The responses the handler can give to `filters` in the current state.
Responses(filters) == {o.response : o \in get_volcano_data(St, filters)}

\* The requests that differ from `filters` in the viewport at most.
OtherViewports(filters) ==
  {other \in QueryFilters :
     [other EXCEPT !.x_range = <<>>, !.y_range = <<>>]
       = [filters EXCEPT !.x_range = <<>>, !.y_range = <<>>]}

\* The requests that differ from `filters` in the viewport and the zoom level
\* at most.
OtherViewportsAndZooms(filters) ==
  {other \in QueryFilters :
     [other EXCEPT !.x_range = <<>>, !.y_range = <<>>, !.zoom_level = 16]
       = [filters EXCEPT !.x_range = <<>>, !.y_range = <<>>,
                         !.zoom_level = 16]}

\* C15 (as stated): with lod_mode false neither the viewport nor the zoom level
\* has any effect on the response: a request that differs in them at most can
\* be given the same response.
C15_LodOffIgnoresViewportAndZoom ==
  (response.kind = "volcano" /\ ~request.filters.lod_mode)
  => \A other \in OtherViewportsAndZooms(request.filters) :
       response \in Responses(other)

\* C15 (amended): with lod_mode false the viewport has no effect on the
\* response and the zoom level none on the budget: the spatial filter is
\* skipped even when both ranges are given and the budget is max_points, so
\* that is_downsampled is true exactly when the search-filtered rows exceed
\* max_points, at most max_points rows are returned, and when the
\* search-filtered rows are at most max_points the response is not downsampled
\* and filtered_rows = points_before_sampling = their number.  With lod_mode
\* true the spatial filter is applied only when both ranges are given.
C15_LodModeGates ==
  response.kind = "volcano" =>
    LET filters == request.filters
        searched == SearchFilter(Rows(heap, calls[1].obj), filters.search_term)
        Kept(row) == /\ WithinBuffer(row.logFC, filters.x_range)
                     /\ WithinBuffer(NegLog10(row.padj), filters.y_range)
    IN  IF ~filters.lod_mode
        THEN /\ response.points_before_sampling = Len(searched)
             /\ response.is_downsampled <=> Len(searched) > filters.max_points
             /\ response.filtered_rows <= filters.max_points
             /\ Len(searched) <= filters.max_points
                  => /\ ~response.is_downsampled
                     /\ response.filtered_rows = Len(searched)
                     /\ response.points_before_sampling = Len(searched)
             /\ \A other \in OtherViewports(filters) :
                  response \in Responses(other)
        ELSE IF filters.x_range = <<>> \/ filters.y_range = <<>>
        THEN response.points_before_sampling = Len(searched)
        ELSE response.points_before_sampling = Len(SelectSeq(searched, Kept))

\* C15 witness: a request with lod_mode false, a zoom level other than 1 and a
\* viewport that leaves out rows of the dataset is answered with every
\* search-filtered row.
C15_Witness ==
  /\ response.kind = "volcano"
  /\ ~request.filters.lod_mode
  /\ request.filters.zoom_level # 16
  /\ request.filters.x_range # <<>>
  /\ request.filters.y_range # <<>>
  /\ Len(InViewport(Rows(heap, calls[1].obj),
                    [request.filters EXCEPT !.lod_mode = TRUE]))
       < response.points_before_sampling
  /\ ~response.is_downsampled
  /\ response.filtered_rows = response.points_before_sampling

\* C16: queries never change a cached dataset and never reuse categories
\* across thresholds: after any sequence of queries on one dataset size the
\* cached dataset is the object first generated, with the rows it was
\* generated with and no category column, and the category of every row of a
\* response is the one given by the thresholds of its own request.
C16_QueriesLeaveDataset ==
  /\ \A size \in DOMAIN _data_cache :
       LET obj == _data_cache[size]
       IN  /\ obj = first_data[size]
           /\ LruHit(get_cached_dataset_lru, size)
                => LruValue(get_cached_dataset_lru, size) = obj
           /\ heap[obj].category = <<>>
           /\ Rows(heap, obj) = GenerateFrom(size, NpRandomSeed(0, Seed))
  /\ response.kind = "volcano" =>
       \A i \in DOMAIN response.data :
         LET row == response.data[i]
             filters == request.filters
         IN  row.category
               = IF /\ row.padj <= filters.p_value_threshold
                    /\ row.logFC < filters.log_fc_min THEN "down"
                 ELSE IF /\ row.padj <= filters.p_value_threshold
                         /\ row.logFC > filters.log_fc_max THEN "up"
                 ELSE "non_significant"

\* C16 witness: a query served from the cache, with thresholds other than the
\* defaults, returns a row whose category is not the one of the default
\* thresholds.
C16_Witness ==
  /\ response.kind = "volcano"
  /\ ~calls[1].ran
  /\ request.filters.p_value_threshold # DefaultFilters(QuerySize).p_value_threshold
  /\ \E i \in DOMAIN response.data :
       response.data[i].category
         # Category(response.data[i], DefaultFilters(QuerySize).p_value_threshold,
                    DefaultFilters(QuerySize).log_fc_min,
                    DefaultFilters(QuerySize).log_fc_max)

\* C17: the point budget of a volcano request in LOD mode at zoom_level 1.0,
\* max_points left at its default, is the documented base of 2000 points, so
\* that such a request on a dataset of more than 2000 rows returns at most 2000.
C17_DefaultLodBudget ==
  ( /\ request.kind = "volcano"
    /\ request.filters.lod_mode
    /\ request.filters.zoom_level = 16
    /\ request.filters.max_points
         = DefaultFilters(request.filters.dataset_size).max_points )
  => /\ EffectiveMaxPoints(request.filters) = DefaultBasePoints
     /\ response.kind = "volcano"
          => response.filtered_rows <= DefaultBasePoints

\* The number of rows of df of category c.
NumberOf(c, df) == Cardinality({i \in DOMAIN df : df[i].category = c})

\* sigRatio = max(0.6 - (z - 1) * 0.1, 0.3), in 160ths (z in sixteenths).
SigRatio(zoom_level) == Max(96 - (zoom_level - 16), 48)

\* The significant quota with B * sigRatio rounded down.
QuotaFloor(budget, zoom_level, df) ==
  Min((budget * SigRatio(zoom_level)) \div 160,
      NumberOf("up", df) + NumberOf("down", df))

\* The significant quota with B * sigRatio rounded to the nearest integer
\* (halves up).
QuotaRounded(budget, zoom_level, df) ==
  Min((2 * budget * SigRatio(zoom_level) + 160) \div 320,
      NumberOf("up", df) + NumberOf("down", df))

\* C18 (as stated): in the extremity-priority branch of intelligent_sampling
\* (more significant rows than sigQuota) up is allotted sigQuota // 2 rows and
\* down sigQuota - sigQuota // 2, and a polarity with fewer rows than its
\* allotment does not raise the allotment of the other: the output holds
\* min(sigQuota // 2, |up|) up rows and min(sigQuota - sigQuota // 2, |down|)
\* down rows.
C18_NoBackfill ==
  ( /\ request.kind = "intelligent_sampling"
    /\ Len(request.df) > request.max_points
    /\ NumberOf("up", request.df) + NumberOf("down", request.df)
         > QuotaFloor(request.max_points, request.zoom_level, request.df) )
  => LET sigQuota == QuotaFloor(request.max_points, request.zoom_level,
                                request.df)
     IN  /\ NumberOf("up", response.value)
              = Min(sigQuota \div 2, NumberOf("up", request.df))
         /\ NumberOf("down", response.value)
              = Min(sigQuota - sigQuota \div 2, NumberOf("down", request.df))

\* C18 (amended): in that branch up is allotted min(sigQuota // 2, |up|) rows
\* and down the rest of the quota, sigQuota less what up was allotted: a
\* shortfall of up rows raises the allotment of down, a shortfall of down rows
\* does not raise that of up, and fewer than sigQuota significant rows are
\* returned exactly when down has fewer rows than its allotment.
C18_BackfillFromDownOnly ==
  ( /\ request.kind = "intelligent_sampling"
    /\ Len(request.df) > request.max_points
    /\ NumberOf("up", request.df) + NumberOf("down", request.df)
         > QuotaFloor(request.max_points, request.zoom_level, request.df) )
  => LET sigQuota == QuotaFloor(request.max_points, request.zoom_level,
                                request.df)
         up == Min(sigQuota \div 2, NumberOf("up", request.df))
         down == sigQuota - up
     IN  /\ NumberOf("up", response.value) = up
         /\ NumberOf("down", response.value)
              = Min(down, NumberOf("down", request.df))
         /\ NumberOf("up", response.value) + NumberOf("down", response.value)
              < sigQuota
              <=> NumberOf("down", request.df) < down

\* C18 witness: the up rows are fewer than sigQuota // 2 and the down rows
\* returned are more than sigQuota - sigQuota // 2, the quota being filled.
C18_Witness ==
  /\ request.kind = "intelligent_sampling"
  /\ Len(request.df) > request.max_points
  /\ LET sigQuota == QuotaFloor(request.max_points, request.zoom_level,
                                request.df)
     IN  /\ NumberOf("up", request.df) + NumberOf("down", request.df) > sigQuota
         /\ NumberOf("up", request.df) < sigQuota \div 2
         /\ NumberOf("down", response.value) > sigQuota - sigQuota \div 2
         /\ NumberOf("up", response.value) + NumberOf("down", response.value)
              = sigQuota

\* C19 (as stated): when intelligent_sampling downsamples with budget B at zoom
\* z, the significant quota is min(round(B * sigRatio), |significant|) with
\* sigRatio = max(0.6 - (z - 1) * 0.1, 0.3) and the non-significant quota is
\* B - sigQuota: at most sigQuota significant rows are returned, and
\* min(B - sigQuota, |nonSignificant|) non-significant ones.
C19_QuotaRounded ==
  ( /\ request.kind = "intelligent_sampling"
    /\ Len(request.df) > request.max_points )
  => LET sigQuota == QuotaRounded(request.max_points, request.zoom_level,
                                  request.df)
     IN  /\ NumberOf("up", response.value) + NumberOf("down", response.value)
              <= sigQuota
         /\ NumberOf("non_significant", response.value)
              = Min(request.max_points - sigQuota,
                    NumberOf("non_significant", request.df))

\* C19 (amended): the same with B * sigRatio rounded down:
\* sigQuota = min(floor(B * sigRatio), |significant|).
C19_QuotaFloor ==
  ( /\ request.kind = "intelligent_sampling"
    /\ Len(request.df) > request.max_points )
  => LET sigQuota == QuotaFloor(request.max_points, request.zoom_level,
                                request.df)
     IN  /\ NumberOf("up", response.value) + NumberOf("down", response.value)
              <= sigQuota
         /\ NumberOf("non_significant", response.value)
              = Min(request.max_points - sigQuota,
                    NumberOf("non_significant", request.df))

\* C19 witness: a downsampling in which rounding down and rounding to nearest
\* give different quotas, with significant rows enough to fill either and
\* non-significant rows enough to fill what is left: the rows returned are
\* split by the quota rounded down.
C19_Witness ==
  /\ request.kind = "intelligent_sampling"
  /\ Len(request.df) > request.max_points
  /\ QuotaFloor(request.max_points, request.zoom_level, request.df)
       # QuotaRounded(request.max_points, request.zoom_level, request.df)
  /\ NumberOf("up", response.value) + NumberOf("down", response.value)
       = QuotaFloor(request.max_points, request.zoom_level, request.df)
  /\ NumberOf("non_significant", response.value)
       = request.max_points
           - QuotaFloor(request.max_points, request.zoom_level, request.df)
  /\ NumberOf("non_significant", response.value) > 0
  /\ NumberOf("up", response.value) + NumberOf("down", response.value) > 0

\* C20: when intelligent_sampling downsamples and the significant rows do not
\* exceed the significant quota, every significant (up or down) row of the
\* input is in the output, and the output holds exactly
\* min(B - |significant|, |nonSignificant|) non-significant rows.
C20_KeepAllSignificant ==
  ( /\ request.kind = "intelligent_sampling"
    /\ Len(request.df) > request.max_points
    /\ NumberOf("up", request.df) + NumberOf("down", request.df)
         <= (request.max_points * SigRatio(request.zoom_level)) \div 160 )
  => /\ \A i \in DOMAIN request.df :
          request.df[i].category \in {"up", "down"}
            => In(request.df[i], response.value)
     /\ NumberOf("up", response.value) = NumberOf("up", request.df)
     /\ NumberOf("down", response.value) = NumberOf("down", request.df)
     /\ NumberOf("non_significant", response.value)
          = Min(request.max_points
                  - (NumberOf("up", request.df) + NumberOf("down", request.df)),
                NumberOf("non_significant", request.df))

\* C20 witness: a downsampling that keeps every significant row, up and down
\* both present and as many as the quota allows, and fills the rest of the
\* budget with some of the non-significant rows.
C20_Witness ==
  /\ request.kind = "intelligent_sampling"
  /\ Len(request.df) > request.max_points
  /\ NumberOf("up", request.df) + NumberOf("down", request.df)
       = (request.max_points * SigRatio(request.zoom_level)) \div 160
  /\ NumberOf("up", request.df) > 0
  /\ NumberOf("down", request.df) > 0
  /\ NumberOf("up", response.value) + NumberOf("down", response.value)
       = NumberOf("up", request.df) + NumberOf("down", request.df)
  /\ NumberOf("non_significant", response.value)
       < NumberOf("non_significant", request.df)
  /\ Len(response.value) = request.max_points

\* C21: the output of intelligent_sampling is a duplicate-free subset of its
\* input: every row returned is a row of the input, category and attributes
\* unchanged, and no row of the input (the rows of an input are distinct) is
\* returned more than once, for every input, budget from 0 up and zoom level.
C21_DuplicateFreeSubset ==
  request.kind = "intelligent_sampling" =>
    /\ \A k \in DOMAIN response.value : In(response.value[k], request.df)
    /\ \A k, l \in DOMAIN response.value :
         k # l => response.value[k] # response.value[l]
    /\ \A i \in DOMAIN request.df :
         Cardinality({k \in DOMAIN response.value :
                        response.value[k] = request.df[i]}) <= 1

\* C21 witness: a downsampling that returns a significant row and two of the
\* three or more non-significant rows of its input, filling the budget.
C21_Witness ==
  /\ request.kind = "intelligent_sampling"
  /\ Len(request.df) > request.max_points
  /\ Len(response.value) = request.max_points
  /\ NumberOf("up", response.value) + NumberOf("down", response.value) > 0
  /\ NumberOf("non_significant", response.value) >= 2
  /\ NumberOf("non_significant", response.value)
       < NumberOf("non_significant", request.df)
  /\ \A i, j \in DOMAIN request.df : i # j => request.df[i] # request.df[j]

====
